---- MODULE Spec2Model ----
(***************************************************************************)
(* A model of falconlib.FalconLib (src/src/falconlib/falconlib.py): the    *)
(* client's session state, authorize / reauthorize, the dispatcher         *)
(* __httpop with its single reauthorize-and-retry on 401, and the endpoint *)
(* wrappers that turn the final response into a FalconStatus envelope.     *)
(*                                                                         *)
(* The server is the environment: every answer (status code and body, or a *)
(* transport error raised by requests) is drawn from a small set.  One     *)
(* action is one network exchange together with the client code that runs  *)
(* up to the next exchange, so a wrapper call that meets a 401 is the      *)
(* three steps Call, Reauth, Retry.  options, the one public method that   *)
(* hands the dispatcher's response back as it is, is the action Options.   *)
(***************************************************************************)
EXTENDS Naturals, Sequences, FiniteSets, TLC

VARIABLES
    self,      \* the FalconLib instance: its attributes
    pc,        \* where the caller is: "idle", "reauth", "retry", "done"
    op,        \* the name of the method being run ("" when idle)
    args,      \* the arguments the method being run was called with
    net,       \* the network exchanges of the call being run, in order
    result     \* what the call being run handed to the caller

vars == <<self, pc, op, args, net, result>>

----------------------------------------------------------------------------
(* Bounds of the model. *)

\* how many distinct access tokens the token endpoint can issue
NumTokens == 2
\* how many distinct (username, password) pairs callers pass to authorize
NumCreds == 2
\* how many distinct document ids callers pass to the document wrappers
NumDocs == 1

(* HTTP status codes the library compares against. *)
HTTP_OK == 200
HTTP_UNAUTHORIZED == 401

----------------------------------------------------------------------------
(* Python values.  None is the string "None", True and False the strings   *)
(* "True" and "False"; a decoded JSON value or a str is a record           *)
(* [kind, val] with kind "dict", "list", "num", "none" or "str".           *)

None == "None"
PyTrue == "True"
PyFalse == "False"

PyDict(d) == [kind |-> "dict", val |-> d]
PyStr(s) == [kind |-> "str", val |-> s]
PyNone == [kind |-> "none", val |-> None]

\* bool(x) of a value that is None, a bool or a str: None, False and ''
\* are false
Truthy(x) == x # None /\ x # "" /\ x # PyFalse

\* x or y
Or(x, y) == IF Truthy(x) THEN x ELSE y

\* isinstance(payload, dict)
IsDict(p) == p.kind = "dict"

\* isinstance(payload, list)
IsList(p) == p.kind = "list"

\* d.get(key) of a dict d: None when the key is missing
Get(d, key) == IF key \in DOMAIN d.val THEN d.val[key] ELSE None

\* the dict literal {key: value}
Dict1(key, value) == PyDict([k \in {key} |-> value])

(* A requests.Response: status_code and the body as received.  body.kind   *)
(* is "dict" (a JSON object), "list" (a JSON array), "num" (a JSON         *)
(* number), "none" (JSON null), "str" (a JSON string) or "text" (not JSON  *)
(* at all).                                                                *)
Response(status, body) == [status_code |-> status, body |-> body]

\* requests raised instead of returning a response (connection refused, timeout)
ConnError == [status_code |-> 0, body |-> [kind |-> "raised", val |-> "ConnectionError"]]

\* the attribute before any response was stored (__init__)
NoResponse == [status_code |-> 0, body |-> PyNone]

\* Response.json() raises ValueError (JSONDecodeError) on a body that is not JSON
JsonRaises(r) == r.body.kind = "text"

\* Response.json() where it does not raise
Json(r) == r.body

\* Response.text
Text(r) == PyStr(r.body.val)

----------------------------------------------------------------------------
(* FalconStatus and its two constructors. *)

FalconStatus(success, message, http_status, payload) ==
    [success |-> success, message |-> message,
     http_status |-> http_status, payload |-> payload]

_success(http_status, message, payload) ==
    FalconStatus(TRUE, message, http_status,
                 IF ~IsDict(payload) THEN Dict1("value", payload) ELSE payload)

\* mutant of _error: the payload is handed on as it came
_error_raw(http_status, message, payload) ==
    FalconStatus(FALSE, message, http_status, payload)

_error(http_status, message, payload) ==
    FalconStatus(FALSE, message, http_status,
                 IF ~IsDict(payload) THEN Dict1("error", payload) ELSE payload)

\* mutant of __json_or_text: the body is handed on undecoded, text or not
__json_or_text_undecoded(r) == r.body

__json_or_text(r) == IF JsonRaises(r) THEN Text(r) ELSE Json(r)

(* What a call hands to its caller: an envelope, a raised exception, or    *)
(* (options) the response as it came.                                      *)
NoEnvelope == FalconStatus(FALSE, "", 0, PyDict([none |-> None]))
Returned(env) == [kind |-> "envelope", env |-> env, exc |-> None, resp |-> NoResponse]
Raised(exc) == [kind |-> "raise", env |-> NoEnvelope, exc |-> exc, resp |-> NoResponse]
NoResult == [kind |-> "none", env |-> NoEnvelope, exc |-> None, resp |-> NoResponse]

\* options hands back the requests.Response itself
ReturnedResponse(r) ==
    [kind |-> "response", env |-> NoEnvelope, exc |-> None, resp |-> r]

----------------------------------------------------------------------------
(* The instance after __init__. *)

Server == "https://api.jdbot.us"
Version == "1_0"

__init__(base, version) ==
    [base_url |-> base \o "/api/v" \o version,
     version |-> version,
     auth_token |-> None,
     token_type |-> None,
     auth_header |-> None,
     session_headers |-> None,    \* session.headers['Authorization']
     last_response |-> NoResponse,
     username |-> None,
     password |-> None,
     user_id |-> None,
     twilio_factor_id |-> None,
     is_admin |-> "absent"]       \* the attribute is not set by __init__

----------------------------------------------------------------------------
(* authorize: the instance after the call and what the call hands back,    *)
(* for the answer r of the token endpoint.  The assignments run in the     *)
(* order of the source, and an exception leaves the earlier ones in place. *)

\* mutant of last_response: only the first response a client sees is kept
last_response_once(s, r) ==
    IF s.last_response = NoResponse THEN [s EXCEPT !.last_response = r] ELSE s

\* self.last_response = response, after every attempt and every exchange
last_response(s, r) == [s EXCEPT !.last_response = r]

\* mutant of AuthHeader: token and token type in the wrong order
AuthHeader_swapped(token_type, auth_token) == auth_token \o " " \o token_type

\* the value of {'Authorization': self.token_type + ' ' + self.auth_token}
AuthHeader(token_type, auth_token) == token_type \o " " \o auth_token

\* mutant of authorize_failed: a refused exchange logs the client out
authorize_failed_logout(s1, r) ==
    [self |-> [s1 EXCEPT !.auth_token = None, !.token_type = None,
                         !.auth_header = None, !.session_headers = None],
     out |-> Returned(_error(r.status_code, "Authorization failed",
                             __json_or_text(r)))]

\* line 100: self.twilio_factor_id = user.get('twilio_factor_id') or ''
authorize_100(s, user) ==
    [s EXCEPT !.twilio_factor_id = Or(Get(user, "twilio_factor_id"), "")]

\* line 101: self.is_admin = user.get('is_admin') or False
authorize_101(s, user) ==
    [s EXCEPT !.is_admin = Or(Get(user, "is_admin"), PyFalse)]

\* authorize's last line: the answer was not 200
authorize_failed(s1, r) ==
    [self |-> s1,
     out |-> Returned(_error(r.status_code, "Authorization failed",
                             __json_or_text(r)))]

authorize(s, username, password, r) ==
    IF r = ConnError THEN [self |-> s, out |-> Raised("ConnectionError")]
    ELSE
    LET s1 == last_response(s, r) IN
    IF r.status_code = HTTP_OK THEN
        IF JsonRaises(r) THEN [self |-> s1, out |-> Raised("JSONDecodeError")]
        ELSE IF ~IsDict(Json(r)) THEN [self |-> s1, out |-> Raised("TypeError")]
        ELSE
        LET user == Json(r).val IN
        IF "access_token" \notin DOMAIN user
        THEN [self |-> s1, out |-> Raised("KeyError")]
        ELSE
        LET s2 == [s1 EXCEPT !.auth_token = user.access_token] IN
        IF "token_type" \notin DOMAIN user
        THEN [self |-> s2, out |-> Raised("KeyError")]
        ELSE
        LET hdr == AuthHeader(user.token_type, user.access_token)
            s3 == [s2 EXCEPT !.token_type = user.token_type,
                             !.auth_header = hdr,
                             !.session_headers = hdr,
                             !.username = username,
                             !.password = password] IN
        IF "user_id" \notin DOMAIN user
        THEN [self |-> s3, out |-> Raised("KeyError")]
        ELSE [self |-> authorize_101(
                           authorize_100([s3 EXCEPT !.user_id = user.user_id],
                                         Json(r)),
                           Json(r)),
              out |-> Returned(_success(r.status_code, "Authorized", Json(r)))]
    ELSE authorize_failed(s1, r)

\* mutant of reauthorize: a transport error of the exchange is caught and
\* handed back as a failure Envelope
reauthorize_caught(s, r) ==
    IF r = ConnError
    THEN [self |-> s,
          out |-> Returned(_error(0, "Authorization failed", PyStr("ConnectionError")))]
    ELSE authorize(s, s.username, s.password, r)

\* mutant of reauthorize: a refused exchange is raised, not returned
reauthorize_strict(s, r) ==
    LET a == authorize(s, s.username, s.password, r) IN
    IF a.out.kind = "envelope" /\ ~a.out.env.success
    THEN [self |-> a.self, out |-> Raised("PermissionError")]
    ELSE a

reauthorize(s, r) == authorize(s, s.username, s.password, r)

----------------------------------------------------------------------------
(* The endpoint wrappers.  Every wrapper has the same shape:               *)
(*     r = self.__verb(path [, data]); self.last_response = r              *)
(*     if r.status_code == code: return _success(code, ok, r.json())       *)
(*     return _error(r.status_code, err, self.__json_or_text(r))           *)
(* and is given by its verb, path, success code and the two messages.      *)
(* wrap is the key under which the wrapper puts r.json() before _success   *)
(* ({'trackers': r.json()}), listwrap the key get_client uses when         *)
(* r.json() is a list.  Parameters substituted into a path or a message    *)
(* are kept as {name}.  create_client, update_client and delete_client are *)
(* defined twice in the class: the later definition is the method.         *)

get_user ==
    [name |-> "get_user", verb |-> "GET", path |-> "/users/lookup/{user_id}/{site_code}",
     code |-> 200, ok |-> "User retrieved",
     err |-> "Unable to retreive user with id {user_id}",
     wrap |-> "", listwrap |-> ""]

register_user ==
    [name |-> "register_user", verb |-> "POST", path |-> "/users/register",
     code |-> 201, ok |-> "User registered",
     err |-> "User registration failed",
     wrap |-> "", listwrap |-> ""]

client_list ==
    [name |-> "client_list", verb |-> "GET", path |-> "/clients/?search_field=client_id&search_value=*",
     code |-> 200, ok |-> "Clients retrieved",
     err |-> "Unable to retrieve clients",
     wrap |-> "clients", listwrap |-> ""]

add_authorized_user ==
    [name |-> "add_authorized_user", verb |-> "PUT", path |-> "/clients/{client_id}/add_authorized_user/{username}",
     code |-> 200, ok |-> "User added",
     err |-> "Unable to add user",
     wrap |-> "", listwrap |-> ""]

remove_authorized_user ==
    [name |-> "remove_authorized_user", verb |-> "PUT", path |-> "/clients/{client_id}/remove_authorized_user/{username}",
     code |-> 200, ok |-> "User removed",
     err |-> "Unable to remove user",
     wrap |-> "", listwrap |-> ""]

create_tracker ==
    [name |-> "create_tracker", verb |-> "POST", path |-> "/trackers",
     code |-> 201, ok |-> "Tracker created",
     err |-> "Tracker creation failed",
     wrap |-> "", listwrap |-> ""]

get_tracker ==
    [name |-> "get_tracker", verb |-> "GET", path |-> "/trackers?tracker_id={tracker_id}",
     code |-> 200, ok |-> "Tracker retrieved",
     err |-> "Tracker retrieval failed",
     wrap |-> "", listwrap |-> ""]

get_client_trackers ==
    [name |-> "get_client_trackers", verb |-> "GET", path |-> "/trackers/client?client_id={client_id}",
     code |-> 200, ok |-> "Trackers retrieved",
     err |-> "Trackers retrieval failed",
     wrap |-> "trackers", listwrap |-> ""]

get_trackers ==
    [name |-> "get_trackers", verb |-> "GET", path |-> "/trackers/user",
     code |-> 200, ok |-> "Trackers retrieved",
     err |-> "Trackers retrieval failed",
     wrap |-> "trackers", listwrap |-> ""]

update_tracker ==
    [name |-> "update_tracker", verb |-> "PUT", path |-> "/trackers/",
     code |-> 200, ok |-> "Tracker updated",
     err |-> "Tracker update failed",
     wrap |-> "", listwrap |-> ""]

delete_tracker ==
    [name |-> "delete_tracker", verb |-> "DELETE", path |-> "/trackers?tracker_id={tracker_id}",
     code |-> 200, ok |-> "Tracker deleted",
     err |-> "Tracker deletion failed",
     wrap |-> "", listwrap |-> ""]

add_document ==
    [name |-> "add_document", verb |-> "POST", path |-> "/documents",
     code |-> 201, ok |-> "Document added",
     err |-> "Document addition failed",
     wrap |-> "", listwrap |-> ""]

add_extended_document_properties ==
    [name |-> "add_extended_document_properties", verb |-> "POST", path |-> "/documents/props",
     code |-> 201, ok |-> "Extended document properties added",
     err |-> "Extended document properties addition failed",
     wrap |-> "", listwrap |-> ""]

get_document ==
    [name |-> "get_document", verb |-> "GET", path |-> "/documents/?doc_id={document_id}",
     code |-> 200, ok |-> "Document retrieved",
     err |-> "Document retrieval failed",
     wrap |-> "", listwrap |-> ""]

get_extended_document_properties ==
    [name |-> "get_extended_document_properties", verb |-> "GET", path |-> "/documents/props?doc_id={document_id}",
     code |-> 200, ok |-> "Extended document properties retrieved",
     err |-> "Extended document properties retrieval failed",
     wrap |-> "", listwrap |-> ""]

get_csv_tables ==
    [name |-> "get_csv_tables", verb |-> "GET", path |-> "/documents/tables/csv?doc_id={document_id}",
     code |-> 200, ok |-> "CSV tables retrieved",
     err |-> "CSV tables retrieval failed",
     wrap |-> "", listwrap |-> ""]

get_json_tables ==
    [name |-> "get_json_tables", verb |-> "GET", path |-> "/documents/tables/json?doc_id={document_id}",
     code |-> 200, ok |-> "JSON tables retrieved",
     err |-> "JSON tables retrieval failed",
     wrap |-> "", listwrap |-> ""]

get_compliance_matrix ==
    [name |-> "get_compliance_matrix", verb |-> "GET", path |-> "/trackers/{tracker_id}/compliance_matrix/{classification}",
     code |-> 200, ok |-> "Compliance matrix retrieved",
     err |-> "Compliance matrix retrieval failed",
     wrap |-> "", listwrap |-> ""]

get_dataset ==
    [name |-> "get_dataset", verb |-> "GET", path |-> "/trackers/{tracker_id}/datasets/{dataset}",
     code |-> 200, ok |-> "Dataset retrieved",
     err |-> "Dataset retrieval failed",
     wrap |-> "", listwrap |-> ""]

get_tracker_categories ==
    [name |-> "get_tracker_categories", verb |-> "GET", path |-> "/trackers/{tracker_id}/categories",
     code |-> 200, ok |-> "Categories retrieved",
     err |-> "Categories retrieval failed",
     wrap |-> "categories", listwrap |-> ""]

get_tracker_category_subcategory_pairs ==
    [name |-> "get_tracker_category_subcategory_pairs", verb |-> "GET", path |-> "/trackers/{tracker_id}/category_subcategory_pairs",
     code |-> 200, ok |-> "Category/subcategory pairs retrieved",
     err |-> "Category/subcategory pairs retrieval failed",
     wrap |-> "category_subcategory_pairs", listwrap |-> ""]

get_documents ==
    [name |-> "get_documents", verb |-> "GET", path |-> "/trackers/{tracker_id}/documents",
     code |-> 200, ok |-> "Documents retrieved",
     err |-> "Documents retrieval failed",
     wrap |-> "documents", listwrap |-> ""]

\* mutant of update_document: the failure message of add_document, pasted
update_document_pasted ==
    [name |-> "update_document", verb |-> "PUT", path |-> "/documents/",
     code |-> 200, ok |-> "Document updated",
     err |-> "Document addition failed",
     wrap |-> "", listwrap |-> ""]

update_document ==
    [name |-> "update_document", verb |-> "PUT", path |-> "/documents/",
     code |-> 200, ok |-> "Document updated",
     err |-> "Document update failed",
     wrap |-> "", listwrap |-> ""]

update_extended_document_properties ==
    [name |-> "update_extended_document_properties", verb |-> "PUT", path |-> "/documents/props/",
     code |-> 200, ok |-> "Extended document properties updated",
     err |-> "Extended document properties update failed",
     wrap |-> "", listwrap |-> ""]

delete_document ==
    [name |-> "delete_document", verb |-> "DELETE", path |-> "/documents?doc_id={document_id}&cascade={casecade}",
     code |-> 200, ok |-> "Document deleted",
     err |-> "Document deletion failed",
     wrap |-> "", listwrap |-> ""]

delete_extended_document_properties ==
    [name |-> "delete_extended_document_properties", verb |-> "DELETE", path |-> "/documents/props?doc_id={document_id}",
     code |-> 200, ok |-> "Extended document properties deleted",
     err |-> "Extended document properties deletion failed",
     wrap |-> "", listwrap |-> ""]

delete_table ==
    [name |-> "delete_table", verb |-> "DELETE", path |-> "/documents/tables?doc_id={document_id}&table_id={table_id}",
     code |-> 200, ok |-> "Table deleted",
     err |-> "Table deletion failed",
     wrap |-> "", listwrap |-> ""]

link_document ==
    [name |-> "link_document", verb |-> "PATCH", path |-> "/trackers/{tracker_id}/documents/link/{document_id}",
     code |-> 202, ok |-> "Document linked",
     err |-> "Document linking failed",
     wrap |-> "", listwrap |-> ""]

unlink_document ==
    [name |-> "unlink_document", verb |-> "PATCH", path |-> "/trackers/{tracker_id}/documents/unlink/{document_id}",
     code |-> 200, ok |-> "Document unlinked",
     err |-> "Document unlinking failed",
     wrap |-> "", listwrap |-> ""]

enqueue ==
    [name |-> "enqueue", verb |-> "POST", path |-> "/util/enqueue",
     code |-> 201, ok |-> "Task enqueued: {request_id}",
     err |-> "Task enqueue failed",
     wrap |-> "", listwrap |-> ""]

job_status ==
    [name |-> "job_status", verb |-> "GET", path |-> "/util/status?request_id={request_id}",
     code |-> 200, ok |-> "Job status retrieved",
     err |-> "Job status retrieval failed",
     wrap |-> "", listwrap |-> ""]

get_client ==
    [name |-> "get_client", verb |-> "GET", path |-> "/clients/?id={client_id}",
     code |-> 200, ok |-> "Client retrieved",
     err |-> "Client retrieval failed",
     wrap |-> "", listwrap |-> "clients"]

create_client ==
    [name |-> "create_client", verb |-> "POST", path |-> "/clients",
     code |-> 201, ok |-> "Client created",
     err |-> "Client creation failed",
     wrap |-> "", listwrap |-> ""]

update_client ==
    [name |-> "update_client", verb |-> "PUT", path |-> "/clients",
     code |-> 200, ok |-> "Client updated",
     err |-> "Client update failed",
     wrap |-> "", listwrap |-> ""]

delete_client ==
    [name |-> "delete_client", verb |-> "DELETE", path |-> "/clients/{client_id}",
     code |-> 200, ok |-> "Client deleted",
     err |-> "Client deletion failed",
     wrap |-> "", listwrap |-> ""]

\* get_clients() is get_client('*')
get_clients == get_client

Endpoints ==
    {get_user, register_user, client_list, add_authorized_user,
     remove_authorized_user, create_tracker, get_tracker, get_client_trackers,
     get_trackers, update_tracker, delete_tracker, add_document,
     add_extended_document_properties, get_document,
     get_extended_document_properties, get_csv_tables, get_json_tables,
     get_compliance_matrix, get_dataset, get_tracker_categories,
     get_tracker_category_subcategory_pairs, get_documents, update_document,
     update_extended_document_properties, delete_document,
     delete_extended_document_properties, delete_table, link_document,
     unlink_document, enqueue, job_status, get_clients, create_client,
     update_client, delete_client}

Endpoint(name) == CHOOSE w \in Endpoints : w.name = name

\* the payload a wrapper hands to _success
SuccessPayload(w, j) ==
    IF w.wrap # "" THEN Dict1(w.wrap, j)
    ELSE IF w.listwrap # "" /\ IsList(j) THEN Dict1(w.listwrap, j)
    ELSE j

\* mutant of IsSuccess: any 2xx status counts as success
IsSuccess_2xx(w, r) == r.status_code \in 200..299

\* the wrapper's test  if r.status_code == <code>
IsSuccess(w, r) == r.status_code = w.code

\* the wrapper's code after the dispatcher returned r
Finish(w, r) ==
    IF IsSuccess(w, r)
    THEN IF JsonRaises(r) THEN Raised("JSONDecodeError")
         ELSE Returned(_success(r.status_code, w.ok, SuccessPayload(w, Json(r))))
    ELSE Returned(_error(r.status_code, w.err, __json_or_text(r)))

----------------------------------------------------------------------------
(* The arguments of a call, and what a wrapper makes of them before it     *)
(* calls the dispatcher.  get_document, get_trackers, update_tracker,      *)
(* add_document, update_document and register_user are called with         *)
(* concrete arguments; the arguments of the other wrappers stay the {name} *)
(* of their path, and the body of a POST or PUT that is a parameter handed *)
(* on as it is, is {data}.                                                 *)

DocIds == {"doc" \o ToString(i) : i \in 1..NumDocs}
Paths == {"/x/doc.pdf"}

NoArgs == [none |-> None]

\* a document mapping as callers pass it to add_document and update_document
Document(id) == PyDict([id |-> id, title |-> "T"])

\* tracker mappings as callers pass them to update_tracker
Trackers ==
    {PyDict([id |-> "123", name |-> "T"]),
     PyDict([id |-> "123", name |-> "T", documents |-> <<>>])}
    \cup {PyDict([id |-> "123", name |-> "T", documents |-> <<d>>]) : d \in DocIds}

\* the username argument of get_trackers: left out, empty, or a name
Usernames == {None, "", "{username}"}

\* get_trackers' test  if username:  and the path of either branch
get_trackers_path(username) ==
    IF Truthy(username)
    THEN "/trackers/user?username=" \o username
    ELSE "/trackers/user"

\* str.lower() of one character of U+0000 to U+00FF: the letters A to Z and
\* the cased letters of Latin-1 (U+00C0 to U+00DE without the sign U+00D7)
LowerChar(c) ==
    CASE c = "A" -> "a" [] c = "B" -> "b" [] c = "C" -> "c" [] c = "D" -> "d"
      [] c = "E" -> "e" [] c = "F" -> "f" [] c = "G" -> "g" [] c = "H" -> "h"
      [] c = "I" -> "i" [] c = "J" -> "j" [] c = "K" -> "k" [] c = "L" -> "l"
      [] c = "M" -> "m" [] c = "N" -> "n" [] c = "O" -> "o" [] c = "P" -> "p"
      [] c = "Q" -> "q" [] c = "R" -> "r" [] c = "S" -> "s" [] c = "T" -> "t"
      [] c = "U" -> "u" [] c = "V" -> "v" [] c = "W" -> "w" [] c = "X" -> "x"
      [] c = "Y" -> "y" [] c = "Z" -> "z"
      [] c = "À" -> "à" [] c = "Á" -> "á" [] c = "Â" -> "â" [] c = "Ã" -> "ã"
      [] c = "Ä" -> "ä" [] c = "Å" -> "å" [] c = "Æ" -> "æ" [] c = "Ç" -> "ç"
      [] c = "È" -> "è" [] c = "É" -> "é" [] c = "Ê" -> "ê" [] c = "Ë" -> "ë"
      [] c = "Ì" -> "ì" [] c = "Í" -> "í" [] c = "Î" -> "î" [] c = "Ï" -> "ï"
      [] c = "Ð" -> "ð" [] c = "Ñ" -> "ñ" [] c = "Ò" -> "ò" [] c = "Ó" -> "ó"
      [] c = "Ô" -> "ô" [] c = "Õ" -> "õ" [] c = "Ö" -> "ö" [] c = "Ø" -> "ø"
      [] c = "Ù" -> "ù" [] c = "Ú" -> "ú" [] c = "Û" -> "û" [] c = "Ü" -> "ü"
      [] c = "Ý" -> "ý" [] c = "Þ" -> "þ"
      [] OTHER -> c

RECURSIVE Lower(_)
\* str.lower()
Lower(x) ==
    IF x = "" THEN "" ELSE LowerChar(SubSeq(x, 1, 1)) \o Lower(SubSeq(x, 2, Len(x)))

\* the characters of U+0000 to U+00FF for which str.isspace() holds: tab,
\* line feed, vertical tab (U+000B), form feed, carriage return, U+001C to
\* U+001F, the blank, next line (U+0085) and the no-break space (U+00A0)
Whitespace ==
    {"\t", "\n", "", "\f", "\r", "", "", "", "", " ",
     "", " "}

RECURSIVE LStrip(_)
LStrip(x) ==
    IF x # "" /\ SubSeq(x, 1, 1) \in Whitespace
    THEN LStrip(SubSeq(x, 2, Len(x)))
    ELSE x

RECURSIVE RStrip(_)
RStrip(x) ==
    IF x # "" /\ SubSeq(x, Len(x), Len(x)) \in Whitespace
    THEN RStrip(SubSeq(x, 1, Len(x) - 1))
    ELSE x

\* str.strip()
Strip(x) == RStrip(LStrip(x))

\* the user argument of register_user: the dict its signature asks for, an
\* object with the six attributes, and such an object whose optional
\* twilio_factor_id is None
UserFields ==
    [username |-> " Éva\t", email |-> "Eva@X.org", full_name |-> " Éva A ",
     password |-> "pw ", twilio_factor_id |-> "", phone_number |-> ""]
Users ==
    {PyDict(UserFields),
     [kind |-> "object", val |-> UserFields],
     [kind |-> "object", val |-> [UserFields EXCEPT !.twilio_factor_id = None]]}
SiteCodes == {None, " S1 "}

\* register_user reads user.username, ... as attributes and calls a str
\* method on each: a dict has no such attribute, None no such method
register_user_invalid(user) ==
    \/ user.kind # "object"
    \/ \E k \in DOMAIN user.val : user.val[k] = None

\* register_user's registration (lines 152-160)
registration(user, site_code) ==
    PyDict([username |-> Strip(Lower(user.val.username)),
            email |-> Strip(Lower(user.val.email)),
            full_name |-> Strip(user.val.full_name),
            password |-> Strip(user.val.password),
            twilio_factor_id |-> Strip(user.val.twilio_factor_id),
            phone_number |-> Strip(user.val.phone_number),
            site_code |-> Strip(Or(site_code, ""))])

\* enqueue's work_request (lines 705-712); uuid4 is {request_id}
work_request(s) ==
    PyDict([task |-> "{task}", payload |-> "{payload}", ttl |-> "{ttl}",
            username |-> IF Truthy(s.username) THEN s.username ELSE "anonymous",
            request_id |-> "{request_id}"])

\* get_document's test  if not document_id and not path
get_document_invalid(document_id, path) == ~Truthy(document_id) /\ ~Truthy(path)

\* mutant of get_document_path: a path, when given, wins over the identifier
get_document_path_by_path(document_id, path) ==
    IF Truthy(path)
    THEN "/documents/?path=" \o path
    ELSE "/documents/?doc_id=" \o document_id

\* the path get_document requests
get_document_path(document_id, path) ==
    IF Truthy(document_id)
    THEN "/documents/?doc_id=" \o document_id
    ELSE "/documents/?path=" \o path

\* mutant of update_tracker_pop: the tracker is sent as it was passed
update_tracker_pop_nothing(tracker) == tracker

\* update_tracker's  tracker.pop('documents', None)
update_tracker_pop(tracker) ==
    PyDict([k \in DOMAIN tracker.val \ {"documents"} |-> tracker.val[k]])

\* the arguments wrapper w can be called with
Args(w) ==
    CASE w.name = "get_document" ->
            {[document_id |-> d, path |-> q] :
                d \in DocIds \cup {None, ""}, q \in Paths \cup {None, ""}}
      [] w.name = "get_trackers" -> {[username |-> u] : u \in Usernames}
      [] w.name = "register_user" ->
            {[user |-> u, site_code |-> c] : u \in Users, c \in SiteCodes}
      [] w.name = "update_tracker" -> {[tracker |-> tr] : tr \in Trackers}
      [] w.name \in {"add_document", "update_document"} ->
            {[document |-> Document(d)] : d \in DocIds}
      [] OTHER -> {NoArgs}

\* the exception a wrapper raises before it calls the dispatcher, else None
Precheck(w, a) ==
    IF w.name = "get_document" /\ get_document_invalid(a.document_id, a.path)
    THEN "ValueError"
    ELSE IF w.name = "register_user" /\ register_user_invalid(a.user)
    THEN "AttributeError"
    ELSE None

\* the path the wrapper hands to __get, __post, __put, __delete or __patch
Path(w, a) ==
    IF w.name = "get_document"
    THEN get_document_path(a.document_id, a.path)
    ELSE IF w.name = "get_trackers"
    THEN get_trackers_path(a.username)
    ELSE w.path

\* the wrappers that build the body of their request themselves
OwnBody ==
    {"update_tracker", "add_document", "update_document", "register_user",
     "enqueue", "add_authorized_user", "remove_authorized_user"}

\* the data the wrapper hands to __post or __put (json=data); __get and
\* __delete send no body, and the wrappers call __patch without data
Body(s, w, a) ==
    CASE w.name = "update_tracker" -> update_tracker_pop(a.tracker)
      [] w.name \in {"add_document", "update_document"} -> a.document
      [] w.name = "register_user" -> registration(a.user, a.site_code)
      [] w.name = "enqueue" -> work_request(s)
      [] w.name \in {"add_authorized_user", "remove_authorized_user"} ->
            PyDict(<<>>)
      [] w.verb \in {"POST", "PUT"} /\ w.name \notin OwnBody ->
            [kind |-> "param", val |-> "{data}"]
      [] OTHER -> PyNone

----------------------------------------------------------------------------
(* The dispatcher. *)

\* __get, __post, __put, __delete, __patch: the request __httpop issues;
\* the session attaches session.headers to it
Request(s, w, a) ==
    [verb |-> w.verb, url |-> s.base_url \o Path(w, a),
     auth |-> s.session_headers, body |-> Body(s, w, a)]

\* the url arguments of options
OptionsUrls == {"{url}"}

\* options: self.session.options with url = self.base_url + url
OptionsRequest(s, url) ==
    [verb |-> "OPTIONS", url |-> s.base_url \o url,
     auth |-> s.session_headers, body |-> PyNone]

\* mutant of Resend: the retry is sent without the body of the first attempt
Resend_bare(s, req) == [req EXCEPT !.auth = s.session_headers, !.body = PyNone]

\* __httpop's second  method(**kwargs): the same keyword arguments, sent
\* with the headers the session holds now
Resend(s, req) == [req EXCEPT !.auth = s.session_headers]

\* authorize's request: requests.post, not the session, so no Authorization
TokenRequest(s, username, password) ==
    [verb |-> "POST", url |-> s.base_url \o "/users/token", auth |-> None,
     username |-> username, password |-> password]

ApiEvent(req, r) == [ep |-> "api", req |-> req, resp |-> r]
TokenEvent(req, r) == [ep |-> "token", req |-> req, resp |-> r]

\* mutant of __httpop: a 401 is handed to the wrapper like any other status
__httpop_noretry(n, r) == "done"

\* mutant of __httpop: a first 403 is treated like a first 401
__httpop_forbidden(n, r) ==
    IF n = 1 /\ r.status_code \in {HTTP_UNAUTHORIZED, 403} THEN "reauth" ELSE "done"

\* mutant of __httpop: every 401 is followed by reauthorize and a retry
__httpop_loop(n, r) ==
    IF r.status_code = HTTP_UNAUTHORIZED THEN "reauth" ELSE "done"

\* where __httpop goes after the answer r to its attempt number n
__httpop(n, r) ==
    IF n = 1 /\ r.status_code = HTTP_UNAUTHORIZED THEN "reauth" ELSE "done"

\* mutant of requests_post: the credential exchange goes through __httpop
requests_post_httpop(r) ==
    IF r.status_code = HTTP_UNAUTHORIZED THEN "reauth" ELSE "done"

\* where authorize goes after the token endpoint answered r: it calls
\* requests.post itself, not __post, so the answer is never dispatched
requests_post(r) == "done"

----------------------------------------------------------------------------
(* The environment: what the server can answer. *)

Tokens == {"tok" \o ToString(i) : i \in 1..NumTokens}
TokenTypes == {"bearer"}
Creds == {[username |-> "user" \o ToString(i), password |-> "pw" \o ToString(i)] :
            i \in 1..NumCreds}

TokenBodies ==
    {PyDict([access_token |-> a, token_type |-> t, user_id |-> "uid-1"]) :
        a \in Tokens, t \in TokenTypes}
    \cup {PyDict([access_token |-> a, user_id |-> "uid-1"]) : a \in Tokens}
    \cup {PyDict([access_token |-> a, token_type |-> t]) :
             a \in Tokens, t \in TokenTypes}
    \cup {PyDict([access_token |-> a, token_type |-> t, user_id |-> "uid-1",
                   twilio_factor_id |-> "YF123", is_admin |-> PyTrue]) :
             a \in Tokens, t \in TokenTypes}
    \cup {PyDict([token_type |-> "bearer", user_id |-> "uid-1"]),
          [kind |-> "list", val |-> "[]"],
          [kind |-> "text", val |-> "<html>OK</html>"]}

TokenResponses ==
    {Response(200, b) : b \in TokenBodies}
    \cup {Response(401, PyDict([detail |-> "Incorrect username or password"])),
          Response(500, [kind |-> "text", val |-> "Internal Server Error"]),
          ConnError}

ApiStatuses == {200, 201, 202, 401, 403, 404, 409, 500}

\* the bodies an answer with status st can carry: a JSON object or a text
\* that is not JSON with every status, a JSON array or a JSON number with
\* 200 and 404
ApiBodies(st) ==
    {PyDict([id |-> "x1"]),
     [kind |-> "text", val |-> "<html>Bad Gateway</html>"]}
    \cup (IF st \in {200, 404}
          THEN {[kind |-> "list", val |-> "[\"x1\"]"],
                [kind |-> "num", val |-> "5"]}
          ELSE {})
ApiResponses ==
    UNION {{Response(st, b) : b \in ApiBodies(st)} : st \in ApiStatuses}
    \cup {ConnError}

\* the server's answer to update_document with a stale copy of a document
\* (test_update_document_version_fail)
VersionConflict(document) ==
    Response(409, PyDict([detail |-> "Document version conflict: " \o document.val.id]))

\* what the server can answer to wrapper w called with the arguments a
ApiResponsesTo(w, a) ==
    IF w.name = "update_document"
    THEN ApiResponses \cup {VersionConflict(a.document)}
    ELSE ApiResponses

----------------------------------------------------------------------------
(* The state machine. *)

Init ==
    /\ self = __init__(Server, Version)
    /\ pc = "idle"
    /\ op = ""
    /\ args = NoArgs
    /\ net = <<>>
    /\ result = NoResult

\* the caller calls authorize(username, password)
Authorize(c, r) ==
    /\ pc = "idle"
    /\ LET a == authorize(self, c.username, c.password, r) IN
        /\ self' = a.self
        /\ result' = a.out
    /\ net' = <<TokenEvent(TokenRequest(self, c.username, c.password), r)>>
    /\ op' = "authorize"
    /\ args' = [username |-> c.username, password |-> c.password]
    /\ pc' = requests_post(r)

\* the caller calls reauthorize()
Reauthorize(r) ==
    /\ pc = "idle"
    /\ LET a == reauthorize(self, r) IN
        /\ self' = a.self
        /\ result' = a.out
    /\ net' = <<TokenEvent(TokenRequest(self, self.username, self.password), r)>>
    /\ op' = "reauthorize"
    /\ args' = NoArgs
    /\ pc' = requests_post(r)

\* the caller calls wrapper w with the arguments a: the wrapper's code
\* before the dispatcher, the first attempt of __httpop and, unless it is
\* answered 401, the rest of the wrapper
Call(w, a, r) ==
    /\ pc = "idle"
    /\ op' = w.name
    /\ args' = a
    /\ IF Precheck(w, a) # None
       THEN /\ net' = <<>>
            /\ self' = self
            /\ result' = Raised(Precheck(w, a))
            /\ pc' = "done"
       ELSE /\ net' = <<ApiEvent(Request(self, w, a), r)>>
            /\ IF r = ConnError
               THEN /\ self' = self
                    /\ result' = Raised("ConnectionError")
                    /\ pc' = "done"
               ELSE /\ self' = last_response(self, r)
                    /\ pc' = __httpop(1, r)
                    /\ result' = IF pc' = "done" THEN Finish(w, r) ELSE NoResult

\* the caller calls options(url): the first attempt of __httpop and, unless
\* it is answered 401, the return of the response
Options(url, r) ==
    /\ pc = "idle"
    /\ op' = "options"
    /\ args' = [url |-> url]
    /\ net' = <<ApiEvent(OptionsRequest(self, url), r)>>
    /\ IF r = ConnError
       THEN /\ self' = self
            /\ result' = Raised("ConnectionError")
            /\ pc' = "done"
       ELSE /\ self' = last_response(self, r)
            /\ pc' = __httpop(1, r)
            /\ result' = IF pc' = "done" THEN ReturnedResponse(r) ELSE NoResult

\* what the method that called the dispatcher does with the response r the
\* dispatcher returns: a wrapper builds its Envelope, options hands r back
Handed(name, r) ==
    IF name = "options" THEN ReturnedResponse(r) ELSE Finish(Endpoint(name), r)

\* what the server can answer to the request of the running call
AnswersTo(name, a) ==
    IF name = "options" THEN ApiResponses ELSE ApiResponsesTo(Endpoint(name), a)

\* __httpop calls self.reauthorize() and drops the envelope it returns
Reauth(r) ==
    /\ pc = "reauth"
    /\ LET a == reauthorize(self, r) IN
        /\ self' = a.self
        /\ IF a.out.kind = "raise"
           THEN result' = a.out /\ pc' = "done"
           ELSE result' = NoResult /\ pc' = "retry"
    /\ net' = Append(net, TokenEvent(TokenRequest(self, self.username, self.password), r))
    /\ UNCHANGED <<op, args>>

\* __httpop issues the request again, and the method that called it finishes
Retry(r) ==
    /\ pc = "retry"
    /\ r \in AnswersTo(op, args)
    /\ net' = Append(net, ApiEvent(Resend(self, net[1].req), r))
    /\ IF r = ConnError
       THEN /\ self' = self
            /\ result' = Raised("ConnectionError")
            /\ pc' = "done"
       ELSE /\ self' = last_response(self, r)
            /\ pc' = __httpop(2, r)
            /\ result' = IF pc' = "done" THEN Handed(op, r) ELSE NoResult
    /\ UNCHANGED <<op, args>>

\* the caller has the result; the client is ready for the next call
Return ==
    /\ pc = "done"
    /\ pc' = "idle"
    /\ op' = ""
    /\ args' = NoArgs
    /\ net' = <<>>
    /\ result' = NoResult
    /\ UNCHANGED self

Next ==
    \/ \E c \in Creds, r \in TokenResponses : Authorize(c, r)
    \/ \E r \in TokenResponses : Reauthorize(r)
    \/ \E w \in Endpoints : \E a \in Args(w) : \E r \in ApiResponsesTo(w, a) :
          Call(w, a, r)
    \/ \E url \in OptionsUrls : \E r \in ApiResponses : Options(url, r)
    \/ \E r \in TokenResponses : Reauth(r)
    \/ \E r \in ApiResponses \cup {VersionConflict(Document(d)) : d \in DocIds} :
          Retry(r)
    \/ Return

Spec == Init /\ [][Next]_vars

----------------------------------------------------------------------------
(* What the properties below read off a state. *)

WrapperNames == {w.name : w \in Endpoints}
IsWrapperCall == op \in WrapperNames

\* the requests of the running call that went to an endpoint / to the token endpoint
Attempts == Cardinality({i \in DOMAIN net : net[i].ep = "api"})
Exchanges == Cardinality({i \in DOMAIN net : net[i].ep = "token"})
LastEv == net[Len(net)]

\* a wrapper call whose first attempt was answered 401: net[1] is the first
\* attempt, net[2] the credential exchange, net[3] the retry
First401 == IsWrapperCall /\ Len(net) >= 1 /\ net[1].resp.status_code = 401

\* the token endpoint answered 200 with a JSON object holding the keys ks
TokenOkWith(r, ks) ==
    /\ r # ConnError
    /\ r.status_code = 200
    /\ r.body.kind = "dict"
    /\ ks \subseteq DOMAIN r.body.val

\* the exchanges on which authorize raises instead of returning an envelope
TokenRaises(r) ==
    \/ r = ConnError
    \/ r.status_code = 200
       /\ ~TokenOkWith(r, {"access_token", "token_type", "user_id"})

\* the step appends an exchange with the token endpoint / a request to an endpoint
TokenStep == Len(net') = Len(net) + 1 /\ net'[Len(net')].ep = "token"
ApiStep == Len(net') = Len(net) + 1 /\ net'[Len(net')].ep = "api"

----------------------------------------------------------------------------
(* Two callers on one instance, without synchronization.  The class holds  *)
(* no lock, so the callers' code interleaves.  A step is one access to the *)
(* shared instance or one answer of the server: a statement that assigns   *)
(* to the instance is a step of its own, and where a statement reads the   *)
(* instance, and writes it only after the value read has been put aside    *)
(* (line 95: the right-hand side, then the store; line 96: the argument,   *)
(* then update(); line 112: the arguments, then authorize), the read and   *)
(* the write are two steps.  A request of the session (lines 840 and 844)  *)
(* is two steps as well: requests prepares it, reading the session's       *)
(* headers, and the caller then waits until the request has reached the    *)
(* server and is answered, while the other caller runs on.  The request of *)
(* line 89 reads nothing of the instance and is one step.  Each            *)
(* caller makes one wrapper call; a position "aNNN" is the caller about to *)
(* run line NNN, "aNNNs" the caller about to store what line NNN           *)
(* evaluated, "aNNNw" the caller waiting for the answer to the request of  *)
(* line NNN, "wrap" the caller back in the wrapper.  Here pc, op, args     *)
(* and result are functions of the caller (result[t] holds the caller's    *)
(* local variables next to what the call handed back) and net is the one   *)
(* sequence of all exchanges, in the order the server answered them.  The  *)
(* token endpoint issues tok1, tok2, ... in this order; the instance       *)
(* starts out authorized with an older token.                              *)

Callers == {"caller1", "caller2"}

\* the token the instance was authorized with before the two calls
ExpiredToken == "tok0"

\* the place of a token in the order the token endpoint issues them
TokenNo(tok) == CHOOSE i \in 0..NumTokens : tok = "tok" \o ToString(i)

\* authorize, statement by statement
authorize_92(r) ==
    IF JsonRaises(r) THEN "JSONDecodeError" ELSE None

\* mutant of authorize_93: a token older than the one held is not stored
authorize_93_newest(s, user) ==
    IF s.auth_token # None /\ TokenNo(s.auth_token) > TokenNo(user.val.access_token)
    THEN s
    ELSE [s EXCEPT !.auth_token = user.val.access_token]

authorize_93(s, user) == [s EXCEPT !.auth_token = user.val.access_token]
authorize_94(s, user) == [s EXCEPT !.token_type = user.val.token_type]

\* line 95: the right-hand side, and the assignment of its value
authorize_95_value(s) == AuthHeader(s.token_type, s.auth_token)
authorize_95(s, value) == [s EXCEPT !.auth_header = value]

\* line 96: the argument of update(), and what update() stores
authorize_96_value(s) == s.auth_header
authorize_96(s, value) == [s EXCEPT !.session_headers = value]

authorize_97(s, username) == [s EXCEPT !.username = username]
authorize_98(s, password) == [s EXCEPT !.password = password]
authorize_99(s, user) == [s EXCEPT !.user_id = user.val.user_id]

\* the exception of the subscription user[key], else None
Subscript(user, key) ==
    IF ~IsDict(user) THEN "TypeError"
    ELSE IF key \notin DOMAIN user.val THEN "KeyError"
    ELSE None

ConcEndpoints == {get_tracker, add_document}

\* the arguments of the callers' calls
ConcArgs(w) ==
    IF w.name = "add_document" THEN {[document |-> Document("doc1")]} ELSE {NoArgs}

ConcApiResponses ==
    {Response(st, PyDict([id |-> "x1"])) : st \in {200, 401, 404}} \cup {ConnError}

ConcEvent(t, ev) == [caller |-> t, ep |-> ev.ep, req |-> ev.req, resp |-> ev.resp]

\* the exchanges answered so far with a token
Issued ==
    Cardinality({i \in DOMAIN net :
        /\ net[i].ep = "token"
        /\ TokenOkWith(net[i].resp, {"access_token"})})

\* what the token endpoint can answer now: a refusal, a transport error,
\* or a complete body that carries the next token, for a user or for an
\* administrator
ConcTokenResponses ==
    {r \in TokenResponses :
        \/ r = ConnError
        \/ r.status_code = HTTP_UNAUTHORIZED
        \/ /\ TokenOkWith(r, {"access_token", "token_type", "user_id"})
           /\ r.body.val.access_token = "tok" \o ToString(Issued + 1)}

\* no request prepared
NoRequest == [verb |-> "", url |-> "", auth |-> None, body |-> PyNone]

\* the local variables of a caller: r is response in __httpop and r in
\* authorize, req the request of __httpop's kwargs as requests prepared it,
\* username and password are the parameters of authorize, value is what an
\* expression gave before it is stored, out what the call handed back
Local(r, out) ==
    [r |-> r, out |-> out, req |-> NoRequest,
     username |-> None, password |-> None, value |-> None]

ConcInit ==
    /\ self = authorize(__init__(Server, Version), "user1", "pw1",
                        Response(200, PyDict([access_token |-> ExpiredToken,
                                              token_type |-> "bearer",
                                              user_id |-> "uid-1"]))).self
    /\ pc = [t \in Callers |-> "idle"]
    /\ op = [t \in Callers |-> ""]
    /\ args = [t \in Callers |-> NoArgs]
    /\ net = <<>>
    /\ result = [t \in Callers |-> Local(NoResponse, NoResult)]

\* caller t goes to position p, holding r, with out handed back so far
Goto(t, p, r, out) ==
    /\ pc' = [pc EXCEPT ![t] = p]
    /\ result' = [result EXCEPT ![t] = [result[t] EXCEPT !.r = r, !.out = out]]

\* caller t goes to position p with value put aside (None: nothing)
GotoWith(t, p, value) ==
    /\ pc' = [pc EXCEPT ![t] = p]
    /\ result' = [result EXCEPT ![t] = [result[t] EXCEPT !.value = value]]

\* caller t goes to position p with the request req prepared
GotoWaiting(t, p, req) ==
    /\ pc' = [pc EXCEPT ![t] = p]
    /\ result' = [result EXCEPT ![t] = [result[t] EXCEPT !.req = req]]

\* authorize returns to line 843 of caller t: its parameters are gone
ConcReturn(t) ==
    /\ pc' = [pc EXCEPT ![t] = "a844"]
    /\ result' = [result EXCEPT ![t] =
                     [Local(result[t].r, NoResult) EXCEPT !.req = result[t].req]]

\* caller t's call is over and hands out to its caller: its locals are gone
ConcOver(t, out) ==
    /\ pc' = [pc EXCEPT ![t] = "done"]
    /\ result' = [result EXCEPT ![t] = Local(result[t].r, out)]

\* caller t's call raises exc
ConcRaise(t, exc) == ConcOver(t, Raised(exc))

\* line 840, the request of caller t's wrapper call is prepared: requests
\* merges the headers the session holds now into it
ConcPrepare(t, w, a) ==
    /\ pc[t] = "idle"
    /\ op' = [op EXCEPT ![t] = w.name]
    /\ args' = [args EXCEPT ![t] = a]
    /\ GotoWaiting(t, "a840w", Request(self, w, a))
    /\ UNCHANGED <<self, net>>

\* line 840, the first attempt reaches the server and is answered
ConcAttempt(t, r) ==
    /\ pc[t] = "a840w"
    /\ net' = Append(net, ConcEvent(t, ApiEvent(result[t].req, r)))
    /\ IF r = ConnError
       THEN ConcRaise(t, "ConnectionError")
       ELSE Goto(t, "a841", r, NoResult)
    /\ UNCHANGED <<self, op, args>>

\* lines 841-842; an answer other than 401 is returned to the wrapper
\* (line 846)
ConcRecord(t) ==
    /\ pc[t] = "a841"
    /\ self' = last_response(self, result[t].r)
    /\ IF __httpop(1, result[t].r) = "reauth"
       THEN Goto(t, "a112", result[t].r, NoResult)
       ELSE Goto(t, "wrap", result[t].r, NoResult)
    /\ UNCHANGED <<op, args, net>>

\* lines 843 and 112: reauthorize reads the stored credentials and calls
\* authorize with them
ConcLine112(t) ==
    /\ pc[t] = "a112"
    /\ pc' = [pc EXCEPT ![t] = "a89"]
    /\ result' = [result EXCEPT ![t] =
                     [result[t] EXCEPT !.username = self.username,
                                       !.password = self.password]]
    /\ UNCHANGED <<self, op, args, net>>

\* line 89: authorize exchanges the credentials it was called with
ConcExchange(t, r) ==
    /\ pc[t] = "a89"
    /\ net' = Append(net, ConcEvent(t,
                 TokenEvent(TokenRequest(self, result[t].username,
                                         result[t].password), r)))
    /\ IF r = ConnError
       THEN ConcRaise(t, "ConnectionError")
       ELSE Goto(t, "a90", r, NoResult)
    /\ UNCHANGED <<self, op, args>>

\* lines 90-92; an answer other than 200 returns the failure Envelope
\* (line 103), which __httpop drops
ConcLine90(t) ==
    /\ pc[t] = "a90"
    /\ self' = last_response(self, result[t].r)
    /\ IF result[t].r.status_code # HTTP_OK
       THEN ConcReturn(t)
       ELSE IF authorize_92(result[t].r) # None
       THEN ConcRaise(t, authorize_92(result[t].r))
       ELSE Goto(t, "a93", result[t].r, NoResult)
    /\ UNCHANGED <<op, args, net>>

\* line 93
ConcLine93(t) ==
    /\ pc[t] = "a93"
    /\ LET user == Json(result[t].r) IN
       IF Subscript(user, "access_token") # None
       THEN ConcRaise(t, Subscript(user, "access_token")) /\ UNCHANGED self
       ELSE self' = authorize_93(self, user) /\ Goto(t, "a94", result[t].r, NoResult)
    /\ UNCHANGED <<op, args, net>>

\* line 94
ConcLine94(t) ==
    /\ pc[t] = "a94"
    /\ LET user == Json(result[t].r) IN
       IF Subscript(user, "token_type") # None
       THEN ConcRaise(t, Subscript(user, "token_type")) /\ UNCHANGED self
       ELSE self' = authorize_94(self, user) /\ Goto(t, "a95", result[t].r, NoResult)
    /\ UNCHANGED <<op, args, net>>

\* line 95, the right-hand side: the header is built from the attributes
\* as they are now, not from the answer
ConcLine95(t) ==
    /\ pc[t] = "a95"
    /\ GotoWith(t, "a95s", authorize_95_value(self))
    /\ UNCHANGED <<self, op, args, net>>

\* line 95, the assignment
ConcStore95(t) ==
    /\ pc[t] = "a95s"
    /\ self' = authorize_95(self, result[t].value)
    /\ GotoWith(t, "a96", None)
    /\ UNCHANGED <<op, args, net>>

\* line 96, the argument self.auth_header
ConcLine96(t) ==
    /\ pc[t] = "a96"
    /\ GotoWith(t, "a96s", authorize_96_value(self))
    /\ UNCHANGED <<self, op, args, net>>

\* line 96, update() puts the argument into the session's headers
ConcStore96(t) ==
    /\ pc[t] = "a96s"
    /\ self' = authorize_96(self, result[t].value)
    /\ GotoWith(t, "a97", None)
    /\ UNCHANGED <<op, args, net>>

\* line 97: the username the exchange was made with
ConcLine97(t) ==
    /\ pc[t] = "a97"
    /\ self' = authorize_97(self, result[t].username)
    /\ Goto(t, "a98", result[t].r, NoResult)
    /\ UNCHANGED <<op, args, net>>

\* line 98: the password the exchange was made with
ConcLine98(t) ==
    /\ pc[t] = "a98"
    /\ self' = authorize_98(self, result[t].password)
    /\ Goto(t, "a99", result[t].r, NoResult)
    /\ UNCHANGED <<op, args, net>>

\* line 99
ConcLine99(t) ==
    /\ pc[t] = "a99"
    /\ LET user == Json(result[t].r) IN
       IF Subscript(user, "user_id") # None
       THEN ConcRaise(t, Subscript(user, "user_id")) /\ UNCHANGED self
       ELSE self' = authorize_99(self, user) /\ Goto(t, "a100", result[t].r, NoResult)
    /\ UNCHANGED <<op, args, net>>

\* line 100
ConcLine100(t) ==
    /\ pc[t] = "a100"
    /\ self' = authorize_100(self, Json(result[t].r))
    /\ Goto(t, "a101", result[t].r, NoResult)
    /\ UNCHANGED <<op, args, net>>

\* lines 101-102; __httpop drops the success Envelope
ConcLine101(t) ==
    /\ pc[t] = "a101"
    /\ self' = authorize_101(self, Json(result[t].r))
    /\ ConcReturn(t)
    /\ UNCHANGED <<op, args, net>>

\* line 844, the retry is prepared: the same keyword arguments, with the
\* headers the session holds now
ConcPrepareRetry(t) ==
    /\ pc[t] = "a844"
    /\ GotoWaiting(t, "a844w", Resend(self, result[t].req))
    /\ UNCHANGED <<self, op, args, net>>

\* line 844, the retry reaches the server and is answered
ConcRetry(t, r) ==
    /\ pc[t] = "a844w"
    /\ net' = Append(net, ConcEvent(t, ApiEvent(result[t].req, r)))
    /\ IF r = ConnError
       THEN ConcRaise(t, "ConnectionError")
       ELSE Goto(t, "a845", r, NoResult)
    /\ UNCHANGED <<self, op, args>>

\* lines 845-846: the retry's answer is recorded and returned to the wrapper
ConcFinish(t) ==
    /\ pc[t] = "a845"
    /\ self' = last_response(self, result[t].r)
    /\ Goto(t, "wrap", result[t].r, NoResult)
    /\ UNCHANGED <<op, args, net>>

\* the wrapper's  self.last_response = r  (line 298, line 393) and its
\* return, which reads nothing of the instance
ConcWrapper(t) ==
    /\ pc[t] = "wrap"
    /\ self' = last_response(self, result[t].r)
    /\ ConcOver(t, Finish(Endpoint(op[t]), result[t].r))
    /\ UNCHANGED <<op, args, net>>

ConcNext ==
    \/ \E t \in Callers, w \in ConcEndpoints : \E a \in ConcArgs(w) :
          ConcPrepare(t, w, a)
    \/ \E t \in Callers : \E r \in ConcApiResponses : ConcAttempt(t, r)
    \/ \E t \in Callers : ConcRecord(t)
    \/ \E t \in Callers : ConcLine112(t)
    \/ \E t \in Callers : \E r \in ConcTokenResponses : ConcExchange(t, r)
    \/ \E t \in Callers : ConcLine90(t)
    \/ \E t \in Callers : ConcLine93(t)
    \/ \E t \in Callers : ConcLine94(t)
    \/ \E t \in Callers : ConcLine95(t)
    \/ \E t \in Callers : ConcStore95(t)
    \/ \E t \in Callers : ConcLine96(t)
    \/ \E t \in Callers : ConcStore96(t)
    \/ \E t \in Callers : ConcLine97(t)
    \/ \E t \in Callers : ConcLine98(t)
    \/ \E t \in Callers : ConcLine99(t)
    \/ \E t \in Callers : ConcLine100(t)
    \/ \E t \in Callers : ConcLine101(t)
    \/ \E t \in Callers : ConcPrepareRetry(t)
    \/ \E t \in Callers : \E r \in ConcApiResponses : ConcRetry(t, r)
    \/ \E t \in Callers : ConcFinish(t)
    \/ \E t \in Callers : ConcWrapper(t)

SpecConc == ConcInit /\ [][ConcNext]_vars

----------------------------------------------------------------------------
(* C1 *)

\* C1 as stated: a wrapper call whose first attempt is answered 401 ends
\* with exactly one reauthorize() call and exactly one retry, and hands
\* back the Envelope derived from the retry's response.
C1_Original ==
    (pc = "done" /\ First401) =>
        /\ Exchanges = 1
        /\ Attempts = 2
        /\ result.kind = "envelope"
        /\ result = Finish(Endpoint(op), LastEv.resp)

\* C1 as amended: after a first attempt answered 401 there is exactly one
\* reauthorize() call; if it raises (transport error, or a 200 answer that
\* is not a JSON object with access_token, token_type and user_id) the
\* error propagates and no retry is issued; otherwise exactly one retry is
\* issued, and an Envelope handed back is derived only from the retry's
\* response (a retry that raises, or is answered with the success code and
\* a body that is not JSON, propagates the error instead).
C1_OneReauthOneRetry ==
    First401 =>
        /\ Exchanges <= 1
        /\ Attempts <= 2
        /\ pc = "reauth" => Len(net) = 1
        /\ pc = "retry" => Len(net) = 2 /\ ~TokenRaises(net[2].resp)
        /\ pc = "done" =>
            /\ Len(net) >= 2
            /\ net[2].ep = "token"
            /\ IF TokenRaises(net[2].resp)
               THEN Len(net) = 2 /\ result.kind = "raise"
               ELSE /\ Len(net) = 3
                    /\ net[3].ep = "api"
                    /\ IF net[3].resp = ConnError
                       THEN result = Raised("ConnectionError")
                       ELSE /\ result = Finish(Endpoint(op), net[3].resp)
                            /\ result.kind = "envelope" =>
                                 result.env.http_status = net[3].resp.status_code

\* a 401, a successful reauthorization and a retry answered with the
\* wrapper's success code: the call returns a success Envelope
C1_Witness ==
    /\ pc = "done"
    /\ First401
    /\ Len(net) = 3
    /\ net[2].resp.status_code = 200
    /\ result.kind = "envelope"
    /\ result.env.success
    /\ net[3].resp.body # net[1].resp.body

----------------------------------------------------------------------------
(* C2 *)

Both401 ==
    /\ First401
    /\ Len(net) >= 3
    /\ net[3].ep = "api"
    /\ net[3].resp.status_code = 401

\* C2: when the first attempt and the retry are both answered 401 the call
\* is over after these two attempts (no third attempt, no second
\* reauthorize), and it returns a failure Envelope whose http_status is 401;
\* no wrapper call ever makes more than two attempts.
C2_NoThirdAttempt ==
    /\ IsWrapperCall => Attempts <= 2
    /\ Both401 =>
        /\ pc = "done"
        /\ Len(net) = 3
        /\ Attempts = 2
        /\ Exchanges = 1
        /\ result.kind = "envelope"
        /\ ~result.env.success
        /\ result.env.http_status = 401

C2_Witness == Both401 /\ pc = "done" /\ result.kind = "envelope"

----------------------------------------------------------------------------
(* C3 *)

\* C3: in every reachable state the authorization header (the attribute
\* and the session's Authorization entry) is present if and only if the
\* bearer token is present.
C3_HeaderIffToken ==
    /\ (self.auth_header # None) <=> (self.auth_token # None)
    /\ (self.session_headers # None) <=> (self.auth_token # None)

----------------------------------------------------------------------------
(* C4 *)

\* a step whose credential exchange was answered with a status other than 200
NonOkTokenStep ==
    /\ TokenStep
    /\ net'[Len(net')].resp # ConnError
    /\ net'[Len(net')].resp.status_code # 200

CredentialsKept ==
    /\ self'.auth_token = self.auth_token
    /\ self'.token_type = self.token_type
    /\ self'.auth_header = self.auth_header
    /\ self'.session_headers = self.session_headers
    /\ self'.username = self.username
    /\ self'.password = self.password

FailureEnvelopeHanded ==
    op' \in {"authorize", "reauthorize"} =>
        /\ result'.kind = "envelope"
        /\ ~result'.env.success
        /\ result'.env.http_status = net'[Len(net')].resp.status_code

\* C4 as stated: a credential exchange answered with a status other than
\* 200 yields a failure Envelope and leaves token, token type, header,
\* username, password and the last-seen response as they were.
C4_Original ==
    [][NonOkTokenStep =>
          /\ FailureEnvelopeHanded
          /\ CredentialsKept
          /\ self'.last_response = self.last_response]_vars

\* C4 as amended: a credential exchange answered with a status other than
\* 200 yields a failure Envelope and leaves token, token type, header,
\* username and password as they were; the last-seen response is replaced
\* by the token endpoint's answer, and nothing else of the instance changes.
C4_FailedAuthorizeKeepsCredentials ==
    [][NonOkTokenStep =>
          /\ FailureEnvelopeHanded
          /\ CredentialsKept
          /\ self'.last_response = net'[Len(net')].resp
          /\ self' = [self EXCEPT !.last_response = net'[Len(net')].resp]]_vars

\* authorize with other credentials failed on a client that holds a token
C4_Witness ==
    /\ pc = "done"
    /\ op = "authorize"
    /\ net[1].resp.status_code = 401
    /\ result.kind = "envelope"
    /\ self.auth_token # None
    /\ self.username # None
    /\ self.username # net[1].req.username
    /\ self.last_response = net[1].resp

----------------------------------------------------------------------------
(* C5 *)

\* C5: right after a credential exchange answered 200 with access_token A
\* and token_type T, for authorize(u, p) called by the user, by
\* reauthorize() or from the dispatcher, the stored token is A, the stored
\* token type is T, the header (attribute and session entry) is T, one
\* space, A, and the stored username and password are u and p.
C5_SuccessfulAuthorizeSetsSession ==
    (Len(net) > 0 /\ LastEv.ep = "token"
        /\ TokenOkWith(LastEv.resp, {"access_token", "token_type"})) =>
        LET A == LastEv.resp.body.val.access_token
            T == LastEv.resp.body.val.token_type
        IN  /\ self.auth_token = A
            /\ self.token_type = T
            /\ self.auth_header = T \o " " \o A
            /\ self.session_headers = T \o " " \o A
            /\ self.username = LastEv.req.username
            /\ self.password = LastEv.req.password

\* authorize(user2, pw2) answered 200 with tok2 returned a success Envelope
C5_Witness ==
    /\ pc = "done"
    /\ op = "authorize"
    /\ result.kind = "envelope"
    /\ result.env.success
    /\ self.auth_header = "bearer tok2"
    /\ self.username = "user2"
    /\ self.password = "pw2"

----------------------------------------------------------------------------
(* C6 *)

\* C6: once an authorization has succeeded, every request the dispatcher
\* issues carries the header built from the token type and token the
\* instance holds when the request is sent.
C6_RequestCarriesCurrentToken ==
    [][(ApiStep /\ self.user_id # None) =>
          net'[Len(net')].req.auth = self.token_type \o " " \o self.auth_token]_vars

----------------------------------------------------------------------------
(* C7 *)

\* the success codes the specification declares: 201 for creates, 202 for
\* link_document, 200 for reads, updates, deletes and unlink_document
DeclaredCode(name) ==
    IF name \in {"create_tracker", "add_document", "create_client", "enqueue",
                 "register_user", "add_extended_document_properties"}
    THEN 201
    ELSE IF name = "link_document" THEN 202 ELSE 200

\* C7: the Envelope a wrapper returns has success = TRUE exactly when the
\* final response's status is the wrapper's declared success code, and its
\* http_status is that status.
C7_SuccessIffDeclaredCode ==
    (pc = "done" /\ IsWrapperCall /\ result.kind = "envelope") =>
        /\ result.env.success = (LastEv.resp.status_code = DeclaredCode(op))
        /\ result.env.http_status = LastEv.resp.status_code

\* link_document answered 200, which is not its success code
C7_Witness ==
    /\ pc = "done"
    /\ op = "link_document"
    /\ result.kind = "envelope"
    /\ result.env.http_status = 200
    /\ ~result.env.success

----------------------------------------------------------------------------
(* C8 *)

\* the body of a response as Python sees it: the decoded JSON, else the text
BodyValue(r) == IF r.body.kind = "text" THEN PyStr(r.body.val) ELSE r.body

\* C8 as stated, with 'value' as the one fixed key: the payload of every
\* Envelope is a mapping, a mapping body is passed through unchanged, and
\* any other body is the only entry of a mapping under the fixed key.
C8_Original ==
    (pc = "done" /\ result.kind = "envelope") =>
        LET b == BodyValue(LastEv.resp) IN
        /\ IsDict(result.env.payload)
        /\ result.env.payload = IF IsDict(b) THEN b ELSE Dict1("value", b)

\* the wrappers that put the decoded body of a success under a key of their own
OwnKey(name) ==
    CASE name \in {"client_list"} -> "clients"
      [] name \in {"get_client_trackers", "get_trackers"} -> "trackers"
      [] name = "get_tracker_categories" -> "categories"
      [] name = "get_tracker_category_subcategory_pairs" -> "category_subcategory_pairs"
      [] name = "get_documents" -> "documents"
      [] OTHER -> ""

\* C8 as amended: the payload of every Envelope is a mapping.  A failure
\* Envelope passes a mapping body through and puts any other body under
\* 'error'.  A success Envelope of client_list, get_client_trackers,
\* get_trackers, get_tracker_categories, get_tracker_category_subcategory_pairs
\* and get_documents puts the body, mapping or not, under the wrapper's own
\* key; get_client puts a list body under 'clients'; every other success
\* Envelope passes a mapping body through and puts any other body under
\* 'value'.
C8_PayloadIsMapping ==
    (pc = "done" /\ result.kind = "envelope") =>
        LET b == BodyValue(LastEv.resp) IN
        /\ IsDict(result.env.payload)
        /\ result.env.payload =
             IF ~result.env.success
             THEN IF IsDict(b) THEN b ELSE Dict1("error", b)
             ELSE IF OwnKey(op) # "" THEN Dict1(OwnKey(op), b)
             ELSE IF op = "get_client" /\ b.kind = "list" THEN Dict1("clients", b)
             ELSE IF IsDict(b) THEN b ELSE Dict1("value", b)

\* a failure whose body is not JSON: the raw text under 'error'
C8_Witness ==
    /\ pc = "done"
    /\ IsWrapperCall
    /\ result.kind = "envelope"
    /\ LastEv.resp.body.kind = "text"
    /\ result.env.payload = Dict1("error", PyStr(LastEv.resp.body.val))

----------------------------------------------------------------------------
(* C9 *)

\* C9: reauthorize() on a client whose stored username and password are
\* absent does not return a success Envelope and sets neither a bearer
\* token nor an authorization header.
C9_ReauthorizeWithoutCredentialsFails ==
    [][(pc = "idle" /\ op' = "reauthorize"
          /\ self.username = None /\ self.password = None) =>
          /\ ~(result'.kind = "envelope" /\ result'.env.success)
          /\ self'.auth_token = self.auth_token
          /\ self'.auth_header = self.auth_header
          /\ self'.session_headers = self.session_headers]_vars

----------------------------------------------------------------------------
(* C10 *)

\* a wrapper call whose first attempt was answered 401 and whose
\* reauthorization was answered with a status other than 200
ReauthFailed ==
    /\ First401
    /\ Len(net) >= 2
    /\ net[2].resp # ConnError
    /\ net[2].resp.status_code # 200

\* C10 as stated: after a 401 and a failed reauthorization the wrapper
\* raises nothing, issues the retry once and returns an Envelope built from
\* the retry's response, a failure Envelope unless that response carries
\* the success code.
C10_Original ==
    /\ (ReauthFailed /\ Len(net) = 2) => pc = "retry"
    /\ (ReauthFailed /\ pc = "done") =>
        /\ Len(net) = 3
        /\ Attempts = 2
        /\ result.kind = "envelope"
        /\ result.env.http_status = net[3].resp.status_code
        /\ net[3].resp.status_code # Endpoint(op).code => ~result.env.success

\* C10 as amended: the failed reauthorization raises nothing and the retry
\* is still issued exactly once.  A retry answered with a status other than
\* the success code returns a failure Envelope built from that response; a
\* retry answered with the success code returns a success Envelope built
\* from it, unless its body is not JSON, in which case the decode error is
\* raised; a transport error on the retry is raised to the caller.
C10_FailedReauthStillRetries ==
    /\ (ReauthFailed /\ Len(net) = 2) => (pc = "retry" /\ result = NoResult)
    /\ (ReauthFailed /\ pc = "done") =>
        /\ Len(net) = 3
        /\ Attempts = 2
        /\ Exchanges = 1
        /\ LET r == net[3].resp IN
           IF r = ConnError THEN result = Raised("ConnectionError")
           ELSE IF r.status_code = DeclaredCode(op) /\ r.body.kind = "text"
           THEN result = Raised("JSONDecodeError")
           ELSE /\ result.kind = "envelope"
                /\ result.env.http_status = r.status_code
                /\ result.env.success = (r.status_code = DeclaredCode(op))
                /\ result = Finish(Endpoint(op), r)

\* the reauthorization was refused and the retry, answered 404 with a body
\* other than the first attempt's, came back as a failure Envelope
C10_Witness ==
    /\ ReauthFailed
    /\ pc = "done"
    /\ result.kind = "envelope"
    /\ ~result.env.success
    /\ result.env.http_status = 404
    /\ net[3].resp.body # net[1].resp.body

----------------------------------------------------------------------------
(* C11 *)

\* the call ended on a response of the endpoint (not on a transport error,
\* an exchange with the token endpoint or an argument check)
FinalResponse ==
    /\ pc = "done"
    /\ IsWrapperCall
    /\ Len(net) > 0
    /\ LastEv.ep = "api"
    /\ LastEv.resp # ConnError

\* C11: a wrapper whose final response has a status other than its success
\* code returns a failure Envelope and raises nothing, whatever the body:
\* the payload is the decoded body when the body is JSON (a body that is
\* not a mapping under 'error') and else the raw text under 'error'.
C11_FailureNeverRaises ==
    (FinalResponse /\ LastEv.resp.status_code # DeclaredCode(op)) =>
        LET r == LastEv.resp IN
        /\ result.kind = "envelope"
        /\ result.exc = None
        /\ ~result.env.success
        /\ result.env.http_status = r.status_code
        /\ result.env.message = Endpoint(op).err
        /\ result.env.payload =
             CASE r.body.kind = "dict" -> r.body
               [] r.body.kind = "text" -> Dict1("error", PyStr(r.body.val))
               [] OTHER -> Dict1("error", r.body)

\* add_document answered 500 with a body that is not JSON, after a 401 and
\* a reauthorization
C11_Witness ==
    /\ FinalResponse
    /\ op = "add_document"
    /\ Len(net) = 3
    /\ LastEv.resp.status_code = 500
    /\ LastEv.resp.body.kind = "text"
    /\ result.kind = "envelope"
    /\ result.env.payload = Dict1("error", PyStr("<html>Bad Gateway</html>"))

----------------------------------------------------------------------------
(* C12 *)

\* get_document is being called with neither argument / with both
NeitherGiven == ~Truthy(args.document_id) /\ ~Truthy(args.path)
BothGiven == Truthy(args.document_id) /\ Truthy(args.path)

\* the requests of the running call that went to an endpoint
ApiRequests == {net[i].req : i \in {j \in DOMAIN net : net[j].ep = "api"}}

\* C12: get_document called with neither a document_id nor a path raises
\* ValueError, issues no request and leaves the instance, its last-seen
\* response included, as it was; called with both, every request of the
\* call is the GET of /documents/?doc_id=<document_id>, and at least one is
\* issued.
C12_GetDocumentArguments ==
    /\ [](op = "get_document" =>
            /\ NeitherGiven =>
                 (pc = "done" /\ net = <<>> /\ result = Raised("ValueError"))
            /\ BothGiven =>
                 /\ Len(net) >= 1
                 /\ net[1].ep = "api"
                 /\ \A q \in ApiRequests :
                       /\ q.verb = "GET"
                       /\ q.url = Server \o "/api/v" \o Version
                                 \o "/documents/?doc_id=" \o args.document_id
                       /\ q.body = PyNone)
    /\ [][(op' = "get_document" /\ op = "" /\ NeitherGiven') =>
            (self' = self /\ net' = <<>>)]_vars

\* get_document('', None) raised ValueError on a client that holds a token
\* and the response of an earlier call
C12_Witness ==
    /\ op = "get_document"
    /\ args.document_id = ""
    /\ args.path = None
    /\ result = Raised("ValueError")
    /\ self.auth_token # None
    /\ self.last_response.status_code = 404

\* get_document with both arguments went through a 401 and a retry
C12_WitnessBoth ==
    /\ op = "get_document"
    /\ BothGiven
    /\ pc = "done"
    /\ Len(net) = 3

----------------------------------------------------------------------------
(* C13 *)

\* C13: every request update_tracker issues, the first attempt and the
\* retry, is a PUT whose body is the tracker passed in without its
\* 'documents' field: that field is absent and every other field is there
\* with the value it was passed with.
C13_UpdateTrackerDropsDocuments ==
    op = "update_tracker" =>
        /\ Len(net) >= 1
        /\ net[1].ep = "api"
        /\ \A q \in ApiRequests :
              /\ q.verb = "PUT"
              /\ q.body.kind = "dict"
              /\ "documents" \notin DOMAIN q.body.val
              /\ DOMAIN q.body.val = DOMAIN args.tracker.val \ {"documents"}
              /\ \A k \in DOMAIN q.body.val : q.body.val[k] = args.tracker.val[k]

\* update_tracker of a tracker that lists a document, first attempt
\* answered 401, retried after a successful reauthorization
C13_Witness ==
    /\ op = "update_tracker"
    /\ "documents" \in DOMAIN args.tracker.val
    /\ args.tracker.val.documents # <<>>
    /\ pc = "done"
    /\ Len(net) = 3
    /\ net[2].resp.status_code = 200
    /\ net[3].req.body = PyDict([id |-> "123", name |-> "T"])
    /\ net[3].req.auth # net[1].req.auth

----------------------------------------------------------------------------
(* C14 *)

\* C14: a transport error raised while a request is issued (the first
\* attempt, the credential exchange of authorize, of reauthorize or of the
\* dispatcher's 401 handling, or the retry) ends the call: the error is
\* raised to the caller, no Envelope is returned, and the failed request is
\* the last one of the call.
C14_TransportErrorPropagates ==
    \A i \in DOMAIN net :
        net[i].resp = ConnError =>
            /\ i = Len(net)
            /\ pc = "done"
            /\ result = Raised("ConnectionError")
            /\ result.kind # "envelope"

\* the credential exchange inside the 401 handling of a wrapper call met a
\* transport error: the wrapper raised it and sent no retry
C14_Witness ==
    /\ IsWrapperCall
    /\ Len(net) = 2
    /\ net[1].resp.status_code = 401
    /\ net[2].ep = "token"
    /\ net[2].resp = ConnError
    /\ pc = "done"
    /\ result.kind = "raise"

----------------------------------------------------------------------------
(* C15 *)

\* a call through the dispatcher, from a wrapper or from options, whose
\* first attempt was answered with a status other than 401
FirstNot401 ==
    /\ (IsWrapperCall \/ op = "options")
    /\ Len(net) >= 1
    /\ net[1].resp # ConnError
    /\ net[1].resp.status_code # 401

\* C15: when the first attempt is answered with a status other than 401
\* (403, 404, 409 and 5xx included) the dispatcher issues this one request
\* only, does not reauthorize, changes nothing of the instance but the
\* last-seen response, and the caller of the dispatcher (a wrapper, or
\* options) finishes on that very response.
C15_OnlyUnauthorizedIsHandled ==
    /\ [](FirstNot401 =>
            /\ pc = "done"
            /\ Len(net) = 1
            /\ Attempts = 1
            /\ Exchanges = 0
            /\ self.last_response = net[1].resp
            /\ result = Handed(op, net[1].resp)
            /\ op = "options" => result.resp = net[1].resp)
    /\ [][(op = "" /\ FirstNot401') =>
            self' = [self EXCEPT !.last_response = net'[1].resp]]_vars

\* delete_tracker answered 403 on a client that holds a token
C15_Witness ==
    /\ FirstNot401
    /\ op = "delete_tracker"
    /\ net[1].resp.status_code = 403
    /\ net[1].req.auth = "bearer tok1"
    /\ self.auth_token = "tok1"
    /\ result.kind = "envelope"
    /\ result.env.http_status = 403

----------------------------------------------------------------------------
(* C16 *)

\* C16: when a wrapper, authorize() or reauthorize() has returned an
\* Envelope, the last-seen response of the instance is the response of the
\* call's final request, the one the Envelope was built from, and its
\* status code is the Envelope's http_status; also after a 401 and a
\* credential exchange in between.
C16_LastResponseIsEnvelopeSource ==
    (pc = "done" /\ result.kind = "envelope") =>
        /\ Len(net) >= 1
        /\ self.last_response = LastEv.resp
        /\ self.last_response.status_code = result.env.http_status
        /\ IsWrapperCall =>
             (LastEv.ep = "api" /\ result = Finish(Endpoint(op), LastEv.resp))
        /\ ~IsWrapperCall => LastEv.ep = "token"

\* add_document: 401, then a credential exchange answered 200, then 404
C16_Witness ==
    /\ pc = "done"
    /\ op = "add_document"
    /\ Len(net) = 3
    /\ net[2].resp.status_code = 200
    /\ net[3].resp.status_code = 404
    /\ result.kind = "envelope"
    /\ result.env.http_status = 404
    /\ self.last_response = net[3].resp

----------------------------------------------------------------------------
(* C17 *)

\* caller t runs the line at position p in this step
Runs(t, p) == pc[t] = p /\ pc'[t] # p

\* C17: with two callers on one instance nothing guards the session
\* against a stale write: line 93 stores the token of the caller's own
\* exchange whatever token is held and whichever exchange was issued
\* later, line 95 builds the header from the attributes as they are and
\* stores it whatever they have become since, and line 96 reads the header
\* attribute as it is and puts it into the session likewise.  The state in
\* which both callers saw a 401, both reauthorized and the earlier-issued
\* token and its header are what is left is reachable (C17_Witness).
C17_NoGuardAgainstStaleToken ==
    [][\A t \in Callers :
          /\ (Runs(t, "a93") /\ pc'[t] = "a94") =>
                self'.auth_token = result[t].r.body.val.access_token
          /\ Runs(t, "a95") =>
                result'[t].value = self.token_type \o " " \o self.auth_token
          /\ Runs(t, "a95s") =>
                self'.auth_header = result[t].value
          /\ Runs(t, "a96") =>
                result'[t].value = self.auth_header
          /\ Runs(t, "a96s") =>
                self'.session_headers = result[t].value]_vars

\* both first attempts were answered 401; caller1's exchange was issued
\* tok1, then caller2's was issued tok2; caller2 stored first, caller1
\* last: both calls are over and the session holds tok1 and its header
C17_Witness ==
    /\ \A t \in Callers : pc[t] = "done" /\ result[t].out.kind = "envelope"
    /\ Len(net) = 6
    /\ net[1].ep = "api" /\ net[1].resp.status_code = 401
    /\ net[2].ep = "api" /\ net[2].resp.status_code = 401
    /\ net[1].caller # net[2].caller
    /\ net[3].ep = "token" /\ net[4].ep = "token"
    /\ TokenOkWith(net[3].resp, {"access_token", "token_type", "user_id"})
    /\ TokenOkWith(net[4].resp, {"access_token", "token_type", "user_id"})
    /\ net[3].resp.body.val.access_token = "tok1"
    /\ net[4].resp.body.val.access_token = "tok2"
    /\ self.auth_token = "tok1"
    /\ self.auth_header = "bearer tok1"
    /\ self.session_headers = "bearer tok1"

----------------------------------------------------------------------------
(* C18 *)

\* the string t occurs in the string s
Contains(s, t) ==
    \E i \in 1..(Len(s) + 1 - Len(t)) : SubSeq(s, i, i + Len(t) - 1) = t

\* update_document ended on the server's 409 for a stale copy
StaleUpdate ==
    /\ FinalResponse
    /\ op = "update_document"
    /\ LastEv.resp = VersionConflict(args.document)

\* C18 as stated: update_document with a stale copy, answered 409, returns
\* a failure Envelope with http_status 409 whose message contains the
\* document's id.
C18_Original ==
    StaleUpdate =>
        /\ result.kind = "envelope"
        /\ ~result.env.success
        /\ result.env.http_status = 409
        /\ Contains(result.env.message, args.document.val.id)

\* C18 as amended: update_document with a stale copy, answered 409,
\* returns a failure Envelope with http_status 409 whose message is the
\* fixed text 'Document update failed' and whose payload is the server's
\* decoded body; the document's id is in the payload (its 'detail', as the
\* server words it), not in the message.
C18_ConflictIsInPayload ==
    StaleUpdate =>
        /\ result.kind = "envelope"
        /\ ~result.env.success
        /\ result.env.http_status = 409
        /\ result.env.message = "Document update failed"
        /\ result.env.payload = LastEv.resp.body
        /\ Contains(result.env.payload.val.detail, args.document.val.id)

\* the conflict came back on the retry after a 401
C18_Witness ==
    /\ StaleUpdate
    /\ Len(net) = 3
    /\ net[3].req.body = Document("doc1")
    /\ result.kind = "envelope"
    /\ result.env.payload.val.detail = "Document version conflict: doc1"

----------------------------------------------------------------------------
(* C20 *)

\* C20: the credential exchange is never dispatched: authorize() and
\* reauthorize() send one token request and are over, whatever the answer,
\* and a wrapper call holds at most one token request; a 401 from the token
\* endpoint is followed by no other token request, and inside the
\* dispatcher's 401 handling by nothing but the one retry of the wrapper's
\* own request.
C20_TokenRequestNotDispatched ==
    /\ Exchanges <= 1
    /\ op \in {"authorize", "reauthorize"} =>
          /\ pc = "done"
          /\ Len(net) = 1
          /\ net[1].ep = "token"
          /\ result.kind # "none"
    /\ \A i \in DOMAIN net :
          (net[i].ep = "token" /\ net[i].resp.status_code = 401) =>
              /\ \A j \in DOMAIN net : j # i => net[j].ep = "api"
              /\ IsWrapperCall =>
                    /\ i = 2
                    /\ pc \in {"retry", "done"}
                    /\ Len(net) <= 3

\* the exchange inside a wrapper's 401 handling was answered 401, and the
\* wrapper went on to its retry and returned
C20_Witness ==
    /\ IsWrapperCall
    /\ pc = "done"
    /\ Len(net) = 3
    /\ net[1].resp.status_code = 401
    /\ net[2].ep = "token"
    /\ net[2].resp.status_code = 401
    /\ net[3].ep = "api"
    /\ result.kind = "envelope"

----------------------------------------------------------------------------
(* C21 *)

\* the second request repeats the first: same verb, URL and body
SameRequest(q1, q2) ==
    /\ q2.verb = q1.verb
    /\ q2.url = q1.url
    /\ q2.body = q1.body

\* C21 as stated: a wrapper call whose first attempt is answered 401 has
\* exactly these network events, in this order: the request R, one
\* credential exchange with the stored username and password, and R again
\* with the verb, URL and body of the first attempt.
C21_Original ==
    (pc = "done" /\ First401) =>
        /\ Len(net) = 3
        /\ net[1].ep = "api"
        /\ net[2].ep = "token"
        /\ net[3].ep = "api"
        /\ SameRequest(net[1].req, net[3].req)

\* C21 as amended: after a first attempt answered 401 the next network
\* event of the call is one credential exchange with the stored username
\* and password.  If that exchange raises (transport error, or a 200
\* answer that is not a JSON object with access_token, token_type and
\* user_id) it is the last event of the call and no retry is sent;
\* otherwise the third and last event is the request R again, with the
\* verb, URL and body of the first attempt.  A retry is never sent before
\* the credential exchange has been answered.
C21_RequestExchangeRequest ==
    First401 =>
        /\ net[1].ep = "api"
        /\ Len(net) <= 3
        /\ pc = "reauth" <=> Len(net) = 1
        /\ Len(net) >= 2 =>
              /\ net[2].ep = "token"
              /\ net[2].req.username = self.username
              /\ net[2].req.password = self.password
              /\ IF TokenRaises(net[2].resp)
                 THEN pc = "done" /\ Len(net) = 2
                 ELSE (pc = "retry" <=> Len(net) = 2)
        /\ Len(net) = 3 =>
              /\ net[3].ep = "api"
              /\ pc = "done"
              /\ SameRequest(net[1].req, net[3].req)

\* add_document: 401, a credential exchange answered 200, then the same
\* POST with the same document and the new header
C21_Witness ==
    /\ First401
    /\ op = "add_document"
    /\ pc = "done"
    /\ Len(net) = 3
    /\ net[2].resp.status_code = 200
    /\ net[2].req.username = "user1"
    /\ net[1].req.body = Document("doc1")
    /\ net[3].req.body = Document("doc1")
    /\ net[3].req.auth # net[1].req.auth

----------------------------------------------------------------------------
(* C22 *)

\* the step is a credential exchange that succeeded: answered 200 with
\* access_token, token_type and user_id, so that authorize ran to its end
SuccessfulExchangeStep ==
    /\ TokenStep
    /\ TokenOkWith(net'[Len(net')].resp, {"access_token", "token_type", "user_id"})

\* the session holds what the exchange of this step set
SessionIsOfThisExchange ==
    LET ev == net'[Len(net')] IN
    /\ self'.auth_token = ev.resp.body.val.access_token
    /\ self'.token_type = ev.resp.body.val.token_type
    /\ self'.auth_header = ev.resp.body.val.token_type \o " " \o ev.resp.body.val.access_token
    /\ self'.session_headers = self'.auth_header
    /\ self'.username = ev.req.username
    /\ self'.password = ev.req.password

SessionPresent ==
    /\ self.auth_token # None
    /\ self.token_type # None
    /\ self.auth_header # None
    /\ self.session_headers # None
    /\ self.username # None
    /\ self.password # None

\* C22: once an authorize() has succeeded, token, token type, header,
\* username and password are present and are those of the most recent
\* successful credential exchange: a successful exchange sets them to its
\* own values, and every other step (a wrapper call with any answer, an
\* authorize with other credentials that fails, a reauthorization that
\* fails) leaves them as they are.
C22_SessionIsOfLastSuccessfulExchange ==
    [][(self.user_id # None /\ self.username # None /\ self.password # None) =>
          /\ SessionPresent
          /\ SessionPresent'
          /\ IF SuccessfulExchangeStep
             THEN SessionIsOfThisExchange
             ELSE CredentialsKept]_vars

====
